---- MODULE Spec2Model ----
(***************************************************************************)
(* Model of the AArch64-like assembly emulator: the loader (parser.rs),    *)
(* the execution engine (eval.rs) and the driver (main.rs).                *)
(*                                                                         *)
(* Registers are u64 in the source.  The model keeps the unsigned          *)
(* wraparound but at a width of WordBits bits (values 0 .. Modulus - 1),   *)
(* because the model checker's integers are 32 bits wide.                  *)
(***************************************************************************)
EXTENDS Integers, Sequences, FiniteSets, TLC

VARIABLES
    input,            \* main.rs: content, the program text (a sequence of characters)
    overflow_checks,  \* build profile: TRUE for a dev build (cargo run), FALSE for --release
    phase,            \* position of main: "start", "parse_error", "load_panic",
                      \*                   "running", "halted", "panicked"
    ops,              \* the Vec<Op> handed to eval::run
    pc,               \* run: the program counter
    ctx,              \* run: the Context (cond and the 31 registers)
    panic,            \* the panic message once phase is "panicked" or "load_panic"
    parse_err,        \* the nom ErrorKind once phase is "parse_error"
    steps,            \* number of instructions executed so far (observation)
    fetched,          \* index of the instruction executed last, -1 before the first
    before            \* the Context as it was before the instruction executed last

vars == <<input, overflow_checks, phase, ops, pc, ctx, panic, parse_err,
          steps, fetched, before>>

-----------------------------------------------------------------------------
(* Bounds of the model *)

\* Register width in bits (stands for the 64 of u64).
WordBits == 6

\* Largest number of lines of a program text.
MaxLines == 3

\* Largest number of instructions a run executes before the model stops it.
MaxSteps == 6

Modulus == 2 ^ WordBits

-----------------------------------------------------------------------------
(* Data model: parser.rs enums *)

NumRegisters == 31

Register == 0 .. (NumRegisters - 1)

ArithOpcode == {"Add", "Sub", "Mul", "Div"}

BranchOpcode == {"Beq", "Blt"}

Condition == {"Eq", "Lt"}

Reg(r) == [kind |-> "Reg", r |-> r, n |-> 0]

Num(n) == [kind |-> "Num", r |-> 0, n |-> n]

Mov(dst, src) == [kind |-> "Mov", dst |-> dst, src |-> src]

Cmp(reg1, reg2) == [kind |-> "Cmp", reg1 |-> reg1, reg2 |-> reg2]

ArithOp(opcode, reg1, reg2, reg3) ==
    [kind |-> "ArithOp", opcode |-> opcode, reg1 |-> reg1, reg2 |-> reg2, reg3 |-> reg3]

BranchOp(opcode, line) == [kind |-> "BranchOp", opcode |-> opcode, line |-> line]

-----------------------------------------------------------------------------
(* eval.rs: Context *)

\* Context::new with cond starting as Lt.
ContextNewLessThan == [cond |-> "Lt", x |-> [k \in 1 .. NumRegisters |-> 0]]

\* The registers x0 .. x30 are kept as the tuple x, register r at x[r + 1].
ContextNew == [cond |-> "Eq", x |-> [k \in 1 .. NumRegisters |-> 0]]

\* set_reg with the arm of Register::X1 writing field x0.
set_reg_wrong_field(c, r, val) == [c EXCEPT !.x[IF r = 1 THEN 1 ELSE r + 1] = val]

set_reg(c, r, val) == [c EXCEPT !.x[r + 1] = val]

get_reg(c, r) == c.x[r + 1]

\* Outcome of an evaluation step: the new Context, or a panic.
Done(c) == [panic |-> "none", ctx |-> c]

Panicked(msg, c) == [panic |-> msg, ctx |-> c]

-----------------------------------------------------------------------------
(* eval.rs: instruction semantics *)

\* eval_cmp: the comparison result; the Context is not written.
eval_cmp(c, reg1, reg2) == get_reg(c, reg1) < get_reg(c, reg2)

\* The native u64 operators: an overflow panics when the build has overflow
\* checks (dev profile) and wraps when it has not (release profile).
Overflowing(c, reg1, exact, what) ==
    IF exact >= 0 /\ exact < Modulus
    THEN Done(set_reg(c, reg1, exact))
    ELSE IF overflow_checks
         THEN Panicked(what, c)
         ELSE Done(set_reg(c, reg1, (exact + Modulus) % Modulus))

\* Division that yields 0 for a zero divisor instead of panicking.
DivideYieldsZero(c, reg1, value2, value3) ==
    Done(set_reg(c, reg1, IF value3 = 0 THEN 0 ELSE value2 \div value3))

\* value2 / value3: integer division panics on a zero divisor in every build.
Divide(c, reg1, value2, value3) ==
    IF value3 = 0
    THEN Panicked("attempt to divide by zero", c)
    ELSE Done(set_reg(c, reg1, value2 \div value3))

eval_arith(c, opcode, reg1, reg2, reg3) ==
    LET value2 == get_reg(c, reg2)
        value3 == get_reg(c, reg3)
    IN  CASE opcode = "Add" ->
               Overflowing(c, reg1, value2 + value3, "attempt to add with overflow")
          [] opcode = "Sub" ->
               Overflowing(c, reg1, value2 - value3, "attempt to subtract with overflow")
          [] opcode = "Mul" ->
               Overflowing(c, reg1, value2 * value3, "attempt to multiply with overflow")
          [] opcode = "Div" ->
               Divide(c, reg1, value2, value3)

\* eval_mov writing the value of the source register into dst.
eval_mov_into_dst(c, dst, src) ==
    IF src.kind = "Num"
    THEN set_reg(c, dst, src.n)
    ELSE LET n == get_reg(c, src.r) IN set_reg(c, dst, n)

eval_mov(c, dst, src) ==
    IF src.kind = "Num"
    THEN set_reg(c, dst, src.n)
    ELSE LET n == get_reg(c, src.r) IN set_reg(c, src.r, n)

\* eval_branch with the two conditions exchanged.
eval_branch_swapped(c, opcode) ==
    IF opcode = "Beq" THEN c.cond = "Lt" ELSE c.cond = "Eq"

eval_branch(c, opcode) ==
    IF opcode = "Beq" THEN c.cond = "Eq" ELSE c.cond = "Lt"

-----------------------------------------------------------------------------
(* eval.rs: run, one action per way through one iteration of its loop *)

Running == phase = "running"

\* The instruction the loop is about to fetch.
CanFetch == Running /\ pc < Len(ops) /\ steps < MaxSteps

\* What every executed instruction records for observation.
Observe ==
    /\ steps' = steps + 1
    /\ fetched' = pc
    /\ before' = ctx

\* The return of run with >= in place of ==.
RunReturnAtOrPastEnd ==
    /\ Running
    /\ pc >= Len(ops)
    /\ phase' = "halted"
    /\ UNCHANGED <<input, overflow_checks, ops, pc, ctx, panic, parse_err,
                   steps, fetched, before>>

\* if pc == ops.len() { return ctx; }
RunReturn ==
    /\ Running
    /\ pc = Len(ops)
    /\ phase' = "halted"
    /\ UNCHANGED <<input, overflow_checks, ops, pc, ctx, panic, parse_err,
                   steps, fetched, before>>

\* else if pc > ops.len() { panic!("invalid PC"); }
RunInvalidPC ==
    /\ Running
    /\ pc > Len(ops)
    /\ phase' = "panicked"
    /\ panic' = "invalid PC"
    /\ UNCHANGED <<input, overflow_checks, ops, pc, ctx, parse_err,
                   steps, fetched, before>>

\* The Mov arm without the pc += 1 that follows the match.
RunMovWithoutIncrement ==
    /\ CanFetch
    /\ ops[pc + 1].kind = "Mov"
    /\ ctx' = eval_mov(ctx, ops[pc + 1].dst, ops[pc + 1].src)
    /\ pc' = pc
    /\ Observe
    /\ UNCHANGED <<input, overflow_checks, phase, ops, panic, parse_err>>

\* Op::Mov(dst, src) => eval_mov(...); then pc += 1
RunMov ==
    /\ CanFetch
    /\ ops[pc + 1].kind = "Mov"
    /\ ctx' = eval_mov(ctx, ops[pc + 1].dst, ops[pc + 1].src)
    /\ pc' = pc + 1
    /\ Observe
    /\ UNCHANGED <<input, overflow_checks, phase, ops, panic, parse_err>>

\* A true comparison that falls through to the next instruction.
CmpTruePcFallThrough(at) == at + 1

\* Where a true comparison sends the program counter: pc = 1, then pc += 1.
CmpTruePc(at) == 1 + 1

\* The Cmp arm recording a true comparison in cond.
RunCmpTrueSetsCond ==
    /\ CanFetch
    /\ ops[pc + 1].kind = "Cmp"
    /\ eval_cmp(ctx, ops[pc + 1].reg1, ops[pc + 1].reg2)
    /\ ctx' = [ctx EXCEPT !.cond = "Lt"]
    /\ pc' = CmpTruePc(pc)
    /\ Observe
    /\ UNCHANGED <<input, overflow_checks, phase, ops, panic, parse_err>>

\* Op::Cmp(reg1, reg2) => if eval_cmp(...) { pc = 1; } and then pc += 1
RunCmpTrue ==
    /\ CanFetch
    /\ ops[pc + 1].kind = "Cmp"
    /\ eval_cmp(ctx, ops[pc + 1].reg1, ops[pc + 1].reg2)
    /\ pc' = CmpTruePc(pc)
    /\ Observe
    /\ UNCHANGED <<input, overflow_checks, phase, ops, ctx, panic, parse_err>>

\* Op::Cmp(reg1, reg2) => ... else { return ctx; }
RunCmpFalse ==
    /\ CanFetch
    /\ ops[pc + 1].kind = "Cmp"
    /\ ~eval_cmp(ctx, ops[pc + 1].reg1, ops[pc + 1].reg2)
    /\ phase' = "halted"
    /\ Observe
    /\ UNCHANGED <<input, overflow_checks, ops, pc, ctx, panic, parse_err>>

\* Op::ArithOp(opcode, reg1, reg2, reg3) => eval_arith(...); then pc += 1
RunArith ==
    /\ CanFetch
    /\ ops[pc + 1].kind = "ArithOp"
    /\ LET o == ops[pc + 1]
           r == eval_arith(ctx, o.opcode, o.reg1, o.reg2, o.reg3)
       IN  IF r.panic = "none"
           THEN /\ ctx' = r.ctx
                /\ pc' = pc + 1
                /\ UNCHANGED <<phase, panic>>
           ELSE /\ phase' = "panicked"
                /\ panic' = r.panic
                /\ UNCHANGED <<ctx, pc>>
    /\ Observe
    /\ UNCHANGED <<input, overflow_checks, ops, parse_err>>

\* A taken branch without the continue: the pc += 1 of the loop follows.
BranchTakenPcThenIncrement(line) == line + 1

\* Where a taken branch sends the program counter: pc = *line as usize; continue;
BranchTakenPc(line) == line

\* Op::BranchOp(opcode, line) => if eval_branch(...) { pc = line; continue; }
RunBranchTaken ==
    /\ CanFetch
    /\ ops[pc + 1].kind = "BranchOp"
    /\ eval_branch(ctx, ops[pc + 1].opcode)
    /\ pc' = BranchTakenPc(ops[pc + 1].line)
    /\ Observe
    /\ UNCHANGED <<input, overflow_checks, phase, ops, ctx, panic, parse_err>>

\* Op::BranchOp(opcode, line) => branch not taken; then pc += 1
RunBranchNotTaken ==
    /\ CanFetch
    /\ ops[pc + 1].kind = "BranchOp"
    /\ ~eval_branch(ctx, ops[pc + 1].opcode)
    /\ pc' = pc + 1
    /\ Observe
    /\ UNCHANGED <<input, overflow_checks, phase, ops, ctx, panic, parse_err>>

-----------------------------------------------------------------------------
(* The nom combinators parser.rs uses, over sequences of characters.        *)
(* A result is Ok (rest of the input, value), Err (a nom ErrorKind) or a    *)
(* panic of the loader.                                                     *)

Ok(i, val) == [st |-> "Ok", i |-> i, val |-> val, err |-> "none"]

Err(i, kind) == [st |-> "Err", i |-> i, val |-> <<>>, err |-> kind]

Panic(i, msg) == [st |-> "Panic", i |-> i, val |-> <<>>, err |-> msg]

\* The ? operator: go on with F of the result r when r is Ok, return r otherwise.
Try(r, F(_)) == IF r.st = "Ok" THEN F(r) ELSE r

Whitespace == {" ", "\t", "\r", "\n"}

DigitChars == <<"0", "1", "2", "3", "4", "5", "6", "7", "8", "9">>

IsDigit(ch) == \E k \in 1 .. Len(DigitChars) : DigitChars[k] = ch

DigitValue(ch) == (CHOOSE k \in 1 .. Len(DigitChars) : DigitChars[k] = ch) - 1

Drop(i, n) == SubSeq(i, n + 1, Len(i))

StartsWith(i, t) == Len(i) >= Len(t) /\ SubSeq(i, 1, Len(t)) = t

\* Length of the longest prefix of i made of whitespace.
SpaceSpan(i) ==
    CHOOSE n \in 0 .. Len(i) :
        /\ \A k \in 1 .. n : i[k] \in Whitespace
        /\ n = Len(i) \/ i[n + 1] \notin Whitespace

\* Length of the longest prefix of i made of digits.
DigitSpan(i) ==
    CHOOSE n \in 0 .. Len(i) :
        /\ \A k \in 1 .. n : IsDigit(i[k])
        /\ n = Len(i) \/ ~IsDigit(i[n + 1])

multispace0(i) == Ok(Drop(i, SpaceSpan(i)), SubSeq(i, 1, SpaceSpan(i)))

multispace1(i) ==
    IF SpaceSpan(i) = 0 THEN Err(i, "MultiSpace") ELSE multispace0(i)

digit1(i) ==
    IF DigitSpan(i) = 0
    THEN Err(i, "Digit")
    ELSE Ok(Drop(i, DigitSpan(i)), SubSeq(i, 1, DigitSpan(i)))

tag(t, i) == IF StartsWith(i, t) THEN Ok(Drop(i, Len(t)), t) ELSE Err(i, "Tag")

char(c, i) ==
    IF Len(i) > 0 /\ i[1] = c THEN Ok(Drop(i, 1), c) ELSE Err(i, "Char")

\* alt over a list of tags: the first tag of the list that matches wins.
alt_tags(tags, i) ==
    IF \E k \in 1 .. Len(tags) : StartsWith(i, tags[k])
    THEN LET k == CHOOSE j \in 1 .. Len(tags) :
                      /\ StartsWith(i, tags[j])
                      /\ \A h \in 1 .. (j - 1) : ~StartsWith(i, tags[h])
         IN  tag(tags[k], i)
    ELSE Err(i, "Tag")

\* str::parse::<u64>() of a run of digits; -1 when the number does not fit.
RECURSIVE parse_u64(_, _)
parse_u64(digits, acc) ==
    IF digits = <<>>
    THEN acc
    ELSE LET nxt == acc * 10 + DigitValue(Head(digits))
         IN  IF nxt >= Modulus THEN -1 ELSE parse_u64(Tail(digits), nxt)

\* n.parse().unwrap()
parse_unwrap(digits) == parse_u64(digits, 0)

-----------------------------------------------------------------------------
(* parser.rs *)

\* The decimal digits of a register number below 100.
RegDigits(n) ==
    IF n < 10
    THEN <<DigitChars[n + 1]>>
    ELSE <<DigitChars[(n \div 10) + 1], DigitChars[(n % 10) + 1]>>

\* The token "xN".
RegTag(n) == <<"x">> \o RegDigits(n)

\* The tags of parse_reg in the order its alt tries them: x0, x1, ..., x30.
RegTags == [k \in 1 .. NumRegisters |-> RegTag(k - 1)]

\* match val { "x0" => Register::X0, ... }
RegisterOf(val) == CHOOSE r \in Register : RegTag(r) = val

parse_reg(i) ==
    Try(alt_tags(RegTags, i), LAMBDA r : Ok(r.i, RegisterOf(r.val)))

get_aop(op) ==
    CASE op = <<"a", "d", "d">> -> "Add"
      [] op = <<"s", "u", "b">> -> "Sub"
      [] op = <<"m", "u", "l">> -> "Mul"
      [] op = <<"d", "i", "v">> -> "Div"

get_brop(op) ==
    CASE op = <<"b", ".", "e", "q">> -> "Beq"
      [] op = <<"b", ".", "l", "t">> -> "Blt"

\* multispace0, char(','), multispace0
Comma(i) ==
    Try(multispace0(i), LAMBDA a :
    Try(char(",", a.i), LAMBDA b :
    multispace0(b.i)))

parse_arith(opcode, i) ==
    Try(multispace1(i), LAMBDA a :
    Try(parse_reg(a.i), LAMBDA reg1 :
    Try(Comma(reg1.i), LAMBDA b :
    Try(parse_reg(b.i), LAMBDA reg2 :
    Try(Comma(reg2.i), LAMBDA c :
    Try(parse_reg(c.i), LAMBDA reg3 :
    Ok(reg3.i, ArithOp(opcode, reg1.val, reg2.val, reg3.val))))))))

\* char('#'), digit1, n.parse().unwrap()
Immediate(i) ==
    Try(char("#", i), LAMBDA a :
    Try(digit1(a.i), LAMBDA n :
    IF parse_unwrap(n.val) < 0
    THEN Panic(n.i, "unwrap on Err")
    ELSE Ok(n.i, parse_unwrap(n.val))))

parse_branch(opcode, i) ==
    Try(multispace1(i), LAMBDA a :
    Try(Immediate(a.i), LAMBDA n :
    Ok(n.i, BranchOp(opcode, n.val))))

\* peek(alt((char('#'), char('x')))): the input is not consumed
PeekHashOrX(i) ==
    IF char("#", i).st = "Ok"
    THEN Ok(i, "#")
    ELSE IF char("x", i).st = "Ok" THEN Ok(i, "x") ELSE Err(i, "Char")

parse_mov(i) ==
    Try(multispace1(i), LAMBDA a :
    Try(parse_reg(a.i), LAMBDA reg1 :
    Try(Comma(reg1.i), LAMBDA b :
    Try(PeekHashOrX(b.i), LAMBDA c :
    IF c.val = "#"
    THEN Try(Immediate(c.i), LAMBDA n : Ok(n.i, Mov(reg1.val, Num(n.val))))
    ELSE Try(parse_reg(c.i), LAMBDA reg2 : Ok(reg2.i, Mov(reg1.val, Reg(reg2.val))))))))

parse_cmp(i) ==
    Try(multispace1(i), LAMBDA a :
    Try(parse_reg(a.i), LAMBDA reg1 :
    Try(Comma(reg1.i), LAMBDA b :
    Try(parse_reg(b.i), LAMBDA reg2 :
    Ok(reg2.i, Cmp(reg1.val, reg2.val))))))

\* The mnemonics in the order parse_asm's alt tries them.
Mnemonics ==
    << <<"m", "o", "v">>, <<"c", "m", "p">>, <<"a", "d", "d">>, <<"s", "u", "b">>,
       <<"m", "u", "l">>, <<"d", "i", "v">>, <<"b", ".", "e", "q">>,
       <<"b", ".", "l", "t">> >>

\* match val { "mov" => parse_mov(i)?, ... }
parse_op(val, i) ==
    CASE val = <<"m", "o", "v">> -> parse_mov(i)
      [] val = <<"c", "m", "p">> -> parse_cmp(i)
      [] val \in {<<"a", "d", "d">>, <<"s", "u", "b">>,
                  <<"m", "u", "l">>, <<"d", "i", "v">>} -> parse_arith(get_aop(val), i)
      [] OTHER -> parse_branch(get_brop(val), i)

\* The loop body of parse_asm without the test for what is left of the line.
parse_line_ignoring_rest(line) ==
    Try(multispace0(line), LAMBDA a :
    Try(alt_tags(Mnemonics, a.i), LAMBDA m :
    Try(parse_op(m.val, m.i), LAMBDA op :
    Try(multispace0(op.i), LAMBDA e :
    Ok(e.i, op.val)))))

\* One pass of the loop body of parse_asm over a line that is not blank:
\* Ok with the Op, or the error the ? returns.
parse_line(line) ==
    Try(multispace0(line), LAMBDA a :
    Try(alt_tags(Mnemonics, a.i), LAMBDA m :
    Try(parse_op(m.val, m.i), LAMBDA op :
    Try(multispace0(op.i), LAMBDA e :
    IF e.i # <<>> THEN Err(e.i, "Eof") ELSE Ok(e.i, op.val)))))

\* str::lines(): the pieces between "\n", without a trailing "\r", and
\* without the empty piece after a final "\n".
RECURSIVE lines(_)
lines(text) ==
    IF text = <<>>
    THEN <<>>
    ELSE LET n == CHOOSE k \in 0 .. Len(text) :
                      /\ \A j \in 1 .. k : text[j] # "\n"
                      /\ k = Len(text) \/ text[k + 1] = "\n"
             raw == SubSeq(text, 1, n)
             piece == IF n > 0 /\ raw[n] = "\r" THEN SubSeq(raw, 1, n - 1) ELSE raw
         IN  <<piece>> \o lines(Drop(text, n + 1))

\* The for loop of parse_asm over the lines from the k-th on, v being the
\* Vec built so far.
RECURSIVE parse_loop(_, _, _)
parse_loop(ls, k, v) ==
    IF k > Len(ls)
    THEN Ok(<<>>, v)
    ELSE IF multispace0(ls[k]).i = <<>>
         THEN parse_loop(ls, k + 1, v)
         ELSE Try(parse_line(ls[k]), LAMBDA r : parse_loop(ls, k + 1, Append(v, r.val)))

parse_asm(text) == parse_loop(lines(text), 1, <<>>)

-----------------------------------------------------------------------------
(* main.rs: the program texts the model runs *)

\* The lines program texts are made of.
SourceLines ==
    {
       \* mov x0, #42
       <<"m", "o", "v", " ", "x", "0", ",", " ", "#", "4", "2">>,
       \* mov x1,#10
       <<"m", "o", "v", " ", "x", "1", ",", "#", "1", "0">>,
       \* mov x2,#4
       <<"m", "o", "v", " ", "x", "2", ",", "#", "4">>,
       \* mov x0,x1
       <<"m", "o", "v", " ", "x", "0", ",", "x", "1">>,
       \* cmp x0,x1
       <<"c", "m", "p", " ", "x", "0", ",", "x", "1">>,
       \* cmp x1,x0
       <<"c", "m", "p", " ", "x", "1", ",", "x", "0">>,
       \* add x0,x0,x0
       <<"a", "d", "d", " ", "x", "0", ",", "x", "0", ",", "x", "0">>,
       \* sub x0,x1,x2
       <<"s", "u", "b", " ", "x", "0", ",", "x", "1", ",", "x", "2">>,
       \* mul x1,x1,x1
       <<"m", "u", "l", " ", "x", "1", ",", "x", "1", ",", "x", "1">>,
       \* div x0,x1,x2
       <<"d", "i", "v", " ", "x", "0", ",", "x", "1", ",", "x", "2">>,
       \* b.eq #0
       <<"b", ".", "e", "q", " ", "#", "0">>,
       \* b.eq #2
       <<"b", ".", "e", "q", " ", "#", "2">>,
       \* b.eq #5
       <<"b", ".", "e", "q", " ", "#", "5">>,
       \* b.lt #5
       <<"b", ".", "l", "t", " ", "#", "5">>,
       \* a blank line
       <<" ", "\r">>,
       \* mov x31, #1
       <<"m", "o", "v", " ", "x", "3", "1", ",", " ", "#", "1">>,
       \* b.eq #99
       <<"b", ".", "e", "q", " ", "#", "9", "9">>
    }

\* The text whose lines are ls, each ended by a newline.
RECURSIVE Join(_)
Join(ls) == IF ls = <<>> THEN <<>> ELSE Head(ls) \o <<"\n">> \o Join(Tail(ls))

Texts == {Join(ls) : ls \in UNION {[1 .. n -> SourceLines] : n \in 0 .. MaxLines}}

\* Well-formed lines that use the token xN in each register position.
\* mov xN, #1
MovToLine(N) == <<"m", "o", "v", " ">> \o RegTag(N) \o <<",", " ", "#", "1">>

\* mov x0, xN
MovFromLine(N) == <<"m", "o", "v", " ", "x", "0", ",", " ">> \o RegTag(N)

\* cmp xN, x0
CmpLine(N) == <<"c", "m", "p", " ">> \o RegTag(N) \o <<",", " ", "x", "0">>

\* add x0, x1, xN
AddLine(N) ==
    <<"a", "d", "d", " ", "x", "0", ",", " ", "x", "1", ",", " ">> \o RegTag(N)

\* The one-line texts made of those lines, for every register x0 .. x30.
RegisterTexts ==
    UNION {{Join(<<MovToLine(N)>>), Join(<<MovFromLine(N)>>),
            Join(<<CmpLine(N)>>), Join(<<AddLine(N)>>)} : N \in Register}

\* Lines the loader has to reject.
\* mov x31, #1
BadRegisterLine == <<"m", "o", "v", " ", "x", "3", "1", ",", " ", "#", "1">>

\* nop
UnknownMnemonicLine == <<"n", "o", "p">>

\* mov x1,#10 z
TrailingGarbageLine == <<"m", "o", "v", " ", "x", "1", ",", "#", "1", "0", " ", "z">>

\* mov x0, #42
GoodLine == <<"m", "o", "v", " ", "x", "0", ",", " ", "#", "4", "2">>

BadLines == {BadRegisterLine, UnknownMnemonicLine, TrailingGarbageLine}

\* Texts with a bad line alone, after a good line, and before a good line.
RejectedTexts ==
    UNION {{Join(<<b>>), Join(<<GoodLine, b>>), Join(<<b, GoodLine>>)} : b \in BadLines}

Init ==
    /\ input \in Texts \cup RegisterTexts \cup RejectedTexts
    /\ overflow_checks \in BOOLEAN
    /\ phase = "start"
    /\ ops = <<>>
    /\ pc = 0
    /\ ctx = ContextNew
    /\ panic = "none"
    /\ parse_err = "none"
    /\ steps = 0
    /\ fetched = -1
    /\ before = ContextNew

\* main: let result = parser::parse_asm(&content); match result { ... }
\*   Ok((_, ops)) => eval::run(&ops), which starts with Context::new() and pc = 0
\*   Err(e)       => println!("parse error: ...")
\* and a panic inside parse_asm ends the process.
Main ==
    /\ phase = "start"
    /\ LET result == parse_asm(input)
       IN  CASE result.st = "Ok" ->
                  /\ ops' = result.val
                  /\ phase' = "running"
                  /\ pc' = 0
                  /\ ctx' = ContextNew
                  /\ UNCHANGED <<panic, parse_err>>
             [] result.st = "Err" ->
                  /\ phase' = "parse_error"
                  /\ parse_err' = result.err
                  /\ UNCHANGED <<ops, pc, ctx, panic>>
             [] result.st = "Panic" ->
                  /\ phase' = "load_panic"
                  /\ panic' = result.err
                  /\ UNCHANGED <<ops, pc, ctx, parse_err>>
    /\ UNCHANGED <<input, overflow_checks, steps, fetched, before>>

Next ==
    \/ Main
    \/ RunReturn
    \/ RunInvalidPC
    \/ RunMov
    \/ RunCmpTrue
    \/ RunCmpFalse
    \/ RunArith
    \/ RunBranchTaken
    \/ RunBranchNotTaken

Spec == Init /\ [][Next]_vars

-----------------------------------------------------------------------------
(* Observations the properties are stated with *)

\* main has called run.
Ran == phase \in {"running", "halted", "panicked"}

\* The instruction executed last.
LastOp == ops[fetched + 1]

\* The instruction executed last is of the given kind.
Executed(kind) == fetched >= 0 /\ LastOp.kind = kind

\* Every Branch target of the program is at most its length.
BranchTargetsValid(prog) ==
    \A k \in 1 .. Len(prog) : prog[k].kind = "BranchOp" => prog[k].line <= Len(prog)

\* The program has no instruction of the given kind.
Without(prog, kind) == \A k \in 1 .. Len(prog) : prog[k].kind # kind

\* The Context c with register dst holding val and nothing else changed.
WithOnly(c, dst, val) ==
    [cond |-> c.cond,
     x |-> [k \in 1 .. NumRegisters |-> IF k = dst + 1 THEN val ELSE c.x[k]]]

-----------------------------------------------------------------------------
(* Properties *)

\* C1: for a program whose Branch targets are all <= length, 0 <= pc <= length
\* in every state of run; an instruction is fetched only at an index < length;
\* and a state with pc > length is followed by no fetch and no normal return,
\* only by the invalid PC panic.
C1_PcInRange ==
    /\ (Ran /\ BranchTargetsValid(ops)) => (0 <= pc /\ pc <= Len(ops))
    /\ fetched < Len(ops) \/ fetched = -1
    /\ (Ran /\ pc > Len(ops)) =>
           \/ phase = "running"
           \/ phase = "panicked" /\ panic = "invalid PC"

\* A taken Branch has sent the program counter to the length of a program
\* whose Branch targets are all valid.
C1_Witness ==
    /\ phase = "running"
    /\ BranchTargetsValid(ops)
    /\ Executed("BranchOp")
    /\ pc = LastOp.line
    /\ pc = Len(ops)
    /\ pc # fetched + 1

\* C2: executing Compare(A, B) leaves the flag LessThan when the value of A is
\* strictly less than the value of B and Equal otherwise (so that the Branch
\* executed next sees it).
C2_CompareSetsFlag ==
    Executed("Cmp") =>
        ctx.cond = IF get_reg(before, LastOp.reg1) < get_reg(before, LastOp.reg2)
                   THEN "Lt"
                   ELSE "Eq"

\* C3: after executing the Compare at index i, run is at pc = i + 1, and it
\* has stopped only if that is the end of the program.
C3_CompareFallsThrough ==
    Executed("Cmp") =>
        /\ pc = fetched + 1
        /\ phase = "running" \/ (phase = "halted" /\ pc = Len(ops))

\* C4: run returns the register file only with pc = length, never with
\* pc < length.
C4_ReturnsOnlyAtLength ==
    phase = "halted" => pc = Len(ops)

\* C5: after executing the Branch at index i with target t, pc = t when its
\* predicate held (flag Equal for b.eq, flag LessThan for b.lt) and pc = i + 1
\* when it did not; the registers and the flag are as before.
C5_BranchSetsPc ==
    Executed("BranchOp") =>
        /\ pc = IF \/ LastOp.opcode = "Beq" /\ before.cond = "Eq"
                   \/ LastOp.opcode = "Blt" /\ before.cond = "Lt"
                THEN LastOp.line
                ELSE fetched + 1
        /\ ctx = before
        /\ phase # "panicked" \/ panic = "invalid PC"

\* A b.eq was taken backwards after a b.lt before it was not taken.
C5_Witness ==
    /\ phase = "running"
    /\ Executed("BranchOp")
    /\ LastOp.opcode = "Beq"
    /\ pc = LastOp.line
    /\ pc < fetched
    /\ steps = fetched + 1
    /\ \E k \in 1 .. fetched : ops[k].kind = "BranchOp" /\ ops[k].opcode = "Blt"

\* C6: a program without Branch is executed index by index: pc equals the
\* number of instructions executed so far while it runs, and it returns with
\* pc = length after exactly length instructions.
C6_FallThroughTrajectory ==
    (Ran /\ Without(ops, "BranchOp")) =>
        /\ phase = "running" => (pc = steps /\ pc <= Len(ops))
        /\ phase = "halted" => (pc = Len(ops) /\ steps = Len(ops))

\* C7: executing Divide with the second operand register holding 0 is fatal:
\* run has panicked at that instruction, it has not returned, and no register
\* (the destination included) nor the flag has been written.
C7_DivideByZeroIsFatal ==
    (/\ Executed("ArithOp")
     /\ LastOp.opcode = "Div"
     /\ get_reg(before, LastOp.reg3) = 0) =>
        /\ phase = "panicked"
        /\ panic = "attempt to divide by zero"
        /\ pc = fetched
        /\ ctx = before

\* A Divide by a register holding 0 was executed with a nonzero dividend,
\* after two other instructions.
C7_Witness ==
    /\ Executed("ArithOp")
    /\ LastOp.opcode = "Div"
    /\ get_reg(before, LastOp.reg3) = 0
    /\ get_reg(before, LastOp.reg2) > 0
    /\ fetched = 2

\* C8: no program the loader accepts makes run panic with invalid PC.
C8_InvalidPcUnreachable ==
    ~(phase = "panicked" /\ panic = "invalid PC")

\* What the operator yields on unsigned words of WordBits bits, wrapping.
Wrapped(opcode, v1, v2) ==
    CASE opcode = "Add" -> (v1 + v2) % Modulus
      [] opcode = "Sub" -> (v1 - v2 + Modulus) % Modulus
      [] opcode = "Mul" -> (v1 * v2) % Modulus
      [] opcode = "Div" -> v1 \div v2

\* C9: executing Arithmetic(op, dst, r1, r2) with op Add, Subtract or Multiply,
\* or Divide with a nonzero divisor, does not panic and leaves in dst the
\* result on the values r1 and r2 had before, reduced modulo 2^WordBits, also
\* when dst is r1 or r2; nothing else is written.
C9_ArithmeticWraps ==
    (/\ Executed("ArithOp")
     /\ LastOp.opcode # "Div" \/ get_reg(before, LastOp.reg3) # 0) =>
        /\ phase # "panicked" \/ panic = "invalid PC"
        /\ ctx = WithOnly(before, LastOp.reg1,
                          Wrapped(LastOp.opcode, get_reg(before, LastOp.reg2),
                                  get_reg(before, LastOp.reg3)))
        /\ pc = fetched + 1

\* C10: executing Move(dst, immediate n) leaves n in dst, the other 30
\* registers and the flag as before, and pc one further; the program
\* mov x0, #42 returns with x0 = 42 and every other register 0.
C10_MoveImmediate ==
    /\ (Executed("Mov") /\ LastOp.src.kind = "Num") =>
           /\ \A r \in Register :
                  get_reg(ctx, r) = IF r = LastOp.dst
                                    THEN LastOp.src.n
                                    ELSE get_reg(before, r)
           /\ ctx.cond = before.cond
           /\ pc = fetched + 1
    /\ (phase = "halted" /\ ops = <<Mov(0, Num(42))>>) =>
           \A r \in Register : get_reg(ctx, r) = IF r = 0 THEN 42 ELSE 0

\* A Move of an immediate into x1 was executed while x0 held 42 already.
C10_Witness ==
    /\ Executed("Mov")
    /\ LastOp.src.kind = "Num"
    /\ LastOp.dst = 1
    /\ get_reg(ctx, 1) = 10
    /\ get_reg(before, 1) = 0
    /\ get_reg(ctx, 0) = 42

\* C11: executing Move(dst, src register) changes nothing observable: all 31
\* registers (dst included) and the flag are as before, and pc is one further.
C11_MoveRegisterIsNoOp ==
    (Executed("Mov") /\ LastOp.src.kind = "Reg") =>
        /\ \A r \in Register : get_reg(ctx, r) = get_reg(before, r)
        /\ ctx.cond = before.cond
        /\ pc = fetched + 1
        /\ phase \in {"running", "halted"}

\* A Move from a register was executed whose source and destination held
\* different values.
C11_Witness ==
    /\ Executed("Mov")
    /\ LastOp.src.kind = "Reg"
    /\ get_reg(before, LastOp.src.r) # get_reg(before, LastOp.dst)

\* C12: executing a Compare or a Branch, taken or not, leaves all 31 registers
\* as they were, and an Arithmetic instruction changes no register other than
\* its destination.
C12_RegistersWrittenOnlyByMoveAndArithmetic ==
    /\ (Executed("Cmp") \/ Executed("BranchOp")) =>
           \A r \in Register : get_reg(ctx, r) = get_reg(before, r)
    /\ Executed("ArithOp") =>
           \A r \in Register \ {LastOp.reg1} : get_reg(ctx, r) = get_reg(before, r)

\* An Arithmetic instruction with destination x1 has changed x1 while x0 held
\* a nonzero value.
C12_Witness ==
    /\ Executed("ArithOp")
    /\ LastOp.reg1 = 1
    /\ get_reg(ctx, 1) # get_reg(before, 1)
    /\ get_reg(before, 0) > 0

\* C13: run starts at pc = 0 with all 31 registers 0 and the flag Equal, so a
\* Branch executed in a program without Compare is decided by that flag:
\* b.eq is taken and b.lt is not.
C13_InitialState ==
    /\ (Ran /\ steps = 0) =>
           /\ pc = 0
           /\ \A r \in Register : get_reg(ctx, r) = 0
           /\ ctx.cond = "Eq"
    /\ (Executed("BranchOp") /\ Without(ops, "Cmp")) =>
           pc = IF LastOp.opcode = "Beq" THEN LastOp.line ELSE fetched + 1

\* The first instruction run executed was a b.lt, which was not taken.
C13_Witness ==
    /\ Executed("BranchOp")
    /\ LastOp.opcode = "Blt"
    /\ steps = 1
    /\ pc = 1
    /\ phase = "running"

\* C14: for every N in 0 .. 30 a well-formed line with the token xN in a
\* register position loads as the instruction that refers to register N.
C14_RegisterTokensLoad ==
    \A N \in Register :
        /\ (phase # "start" /\ input = Join(<<MovToLine(N)>>)) =>
               (Ran /\ ops = <<Mov(N, Num(1))>>)
        /\ (phase # "start" /\ input = Join(<<MovFromLine(N)>>)) =>
               (Ran /\ ops = <<Mov(0, Reg(N))>>)
        /\ (phase # "start" /\ input = Join(<<CmpLine(N)>>)) =>
               (Ran /\ ops = <<Cmp(N, 0)>>)
        /\ (phase # "start" /\ input = Join(<<AddLine(N)>>)) =>
               (Ran /\ ops = <<ArithOp("Add", 0, 1, N)>>)

\* Some line of the text is one the loader has to reject.
HasBadLine(text) == \E k \in 1 .. Len(lines(text)) : lines(text)[k] \in BadLines

\* C15: a text with a line that uses a register token outside x0 .. x30, an
\* unknown mnemonic or trailing garbage fails to load, and after any failed
\* load run has not been called: no instruction was executed, the lines
\* before the offending one included.
C15_LoadFailureNeverRuns ==
    /\ (phase # "start" /\ HasBadLine(input)) => phase \in {"parse_error", "load_panic"}
    /\ phase \in {"parse_error", "load_panic"} =>
           /\ steps = 0
           /\ fetched = -1
           /\ ops = <<>>
           /\ ctx = ContextNew

\* A load has failed on trailing garbage in the second line, after a good
\* first line.
C15_Witness ==
    /\ phase = "parse_error"
    /\ parse_err = "Eof"
    /\ input = Join(<<GoodLine, TrailingGarbageLine>>)

\* The Branch executed last was taken: its predicate held on the flag.
BranchTaken ==
    /\ Executed("BranchOp")
    /\ \/ LastOp.opcode = "Beq" /\ before.cond = "Eq"
       \/ LastOp.opcode = "Blt" /\ before.cond = "Lt"

\* run is about to execute an instruction.
Fetches ==
    RunMov \/ RunCmpTrue \/ RunCmpFalse \/ RunArith \/ RunBranchTaken \/ RunBranchNotTaken

\* C17: after a taken Branch whose target equals length, run returns normally
\* with the registers as they were before the Branch; after a taken Branch
\* whose target is greater than length, run panics with invalid PC without
\* fetching an instruction or returning; a Branch that is not taken does not
\* make run panic, whatever its target.
C17_BranchToEndOrBeyond ==
    /\ (BranchTaken /\ LastOp.line = Len(ops)) =>
           /\ ctx = before
           /\ pc = Len(ops)
           /\ \/ phase = "halted"
              \/ /\ phase = "running"
                 /\ ENABLED RunReturn
                 /\ ~ENABLED RunInvalidPC
                 /\ ~ENABLED Fetches
    /\ (BranchTaken /\ LastOp.line > Len(ops)) =>
           /\ ctx = before
           /\ pc = LastOp.line
           /\ \/ phase = "panicked" /\ panic = "invalid PC"
              \/ /\ phase = "running"
                 /\ ENABLED RunInvalidPC
                 /\ ~ENABLED RunReturn
                 /\ ~ENABLED Fetches
    /\ (Executed("BranchOp") /\ ~BranchTaken) =>
           /\ phase # "panicked"
           /\ pc = fetched + 1

\* run has panicked with invalid PC after a taken Branch, executed after
\* another instruction, whose target is beyond the end of the program.
C17_Witness ==
    /\ phase = "panicked"
    /\ panic = "invalid PC"
    /\ BranchTaken
    /\ LastOp.line > Len(ops)
    /\ fetched > 0

C19_CompareControlEffect ==
    Executed("Cmp") =>
        /\ ctx = before
        /\ IF get_reg(before, LastOp.reg1) < get_reg(before, LastOp.reg2)
           THEN /\ pc = 2
                /\ \/ phase = "running"
                   \/ phase = "halted" /\ Len(ops) = 2
           ELSE /\ phase = "halted"
                /\ pc = fetched

\* A Compare at index 2 whose first register held less than its second has
\* been executed a second time.
C19_Witness ==
    /\ Executed("Cmp")
    /\ get_reg(before, LastOp.reg1) < get_reg(before, LastOp.reg2)
    /\ fetched = 2
    /\ steps > 3
    /\ phase = "running"

\* Every Branch of the program has a target greater than its own index.
ForwardBranches(prog) ==
    \A k \in 1 .. Len(prog) : prog[k].kind = "BranchOp" => prog[k].line > k - 1

\* C20: in a program without Compare whose Branch targets are all greater than
\* the Branch's own index, pc grows with every executed instruction and run
\* ends (returns or panics) after at most length instructions.
C20_ForwardProgramsTerminate ==
    (Ran /\ Without(ops, "Cmp") /\ ForwardBranches(ops)) =>
        /\ steps <= Len(ops)
        /\ fetched >= 0 =>
               IF phase = "panicked" /\ panic # "invalid PC"
               THEN pc = fetched
               ELSE pc > fetched
        /\ phase = "running" => (steps <= pc /\ ENABLED Next)

\* A program without Compare has returned after a forward Branch skipped one
\* of its instructions.
C20_Witness ==
    /\ phase = "halted"
    /\ Without(ops, "Cmp")
    /\ ForwardBranches(ops)
    /\ \E k \in 1 .. Len(ops) : ops[k].kind = "BranchOp"
    /\ steps = 2
    /\ Len(ops) = 3

====
